---- MODULE Spec2Model ----
(***************************************************************************)
(* A model of the mixer (src/src/mixer.rs) and of the playback engine      *)
(* (src/src/engine.rs).                                                    *)
(*                                                                         *)
(* Mixer: producer threads run Mixer::add, one consumer runs               *)
(* MixerSource::next.  Every access to shared state (the mutex around      *)
(* pending_sources, the atomic has_pending) is a step of its own, so the   *)
(* interleavings of add and next are the ones the code allows.             *)
(*                                                                         *)
(* Engine: caller threads run Engine::play, Handle::set_volume and         *)
(* Handle::stop, the background thread runs the loop of background().      *)
(***************************************************************************)
EXTENDS Integers, Sequences, FiniteSets, TLC

\* ------------------------------------------------------------------ bounds
MaxChannels == 2      \* channel counts of mixers and sources range over 1..MaxChannels
MaxLen      == 1      \* a source holds 1..MaxLen samples before adaptation
MaxSources  == 2      \* number of add calls
MaxPulls    == 4      \* number of next calls
MaxSounds   == 2      \* number of play calls
MaxVolumes  == 1      \* number of set_volume calls

\* the sample type of the tests, i16
SampleMin == -32768
SampleMax == 32767

Producers == {"p1", "p2"}
None      == [some |-> FALSE, val |-> 0]
Some(v)   == [some |-> TRUE, val |-> v]

VARIABLES
  \* Mixer<S>
  channels,         \* Mixer::channels
  sample_rate,      \* Mixer::sample_rate
  has_pending,      \* Mixer::has_pending
  pending_sources,  \* Mixer::pending_sources (the Vec inside the mutex)
  pending_lock,     \* owner of the pending_sources mutex, or "free"
  \* MixerSource<S>
  current_sources,  \* MixerSource::current_sources
  sample_count,     \* MixerSource::sample_count
  next_pc,          \* where the consumer is inside next()
  next_ret,         \* what the last finished next() returned
  \* Mixer::add in flight
  add_pc,           \* where each producer is inside add()
  add_src,          \* the uniform_source each producer is adding
  \* history of the run, read by the properties only
  n_added,          \* number of add calls begun (gives sources their ids)
  track,            \* per source id: what has happened to it
  produced,         \* number of samples next() has returned so far
  mixer_args,       \* the channels and sample_rate mixer() was called with
  seek_ret          \* what try_seek() returned, if called since the last next()

VARIABLES
  \* Engine
  spawned,          \* Engine::new: the background thread was spawned
  commands,         \* the messages in the channel (tx, rx), oldest first
  poisoned,         \* the mutex Engine::commands is poisoned
  next_sound_id,    \* Engine::next_sound_id
  \* the caller threads
  call_pc,          \* where each caller is inside play()
  call_id,          \* play()'s local sound_id
  handles,          \* the ids of the Handles that exist
  \* background()
  sounds,           \* the registry: (id, decoder) pairs; a decoder is its volume
  bg_pc,            \* where the loop is inside its iteration
  stepped,          \* the ids whose decoder the last step pass wrote, in order
  polled,           \* what the last try_recv returned: a command, or NoCommand
  \* history of the run, read by the properties only
  assigned,         \* the ids fetch_add has handed out, in order
  sent,             \* how many commands, and how many SetVolume, were sent so far
  watch             \* per sound id: what has happened to its Stop

engine_vars == <<spawned, commands, poisoned, next_sound_id, call_pc, call_id, handles,
                 sounds, bg_pc, stepped, polled, assigned, sent, watch>>

mixer_vars == <<channels, sample_rate, has_pending, pending_sources, pending_lock,
                current_sources, sample_count, next_pc, next_ret, add_pc, add_src,
                n_added, track, produced, mixer_args, seek_ret>>

Ids == 1..MaxSources

\* ------------------------------------------------------- the sample type
\* Sample::zero_value
zero_value == 0

\* Sample::saturating_add for i16: clamps, never wraps
saturating_add(a, b) ==
  IF a + b > SampleMax THEN SampleMax
  ELSE IF a + b < SampleMin THEN SampleMin
  ELSE a + b

\* ------------------------------------------------- the uniform adaptor
\* One output frame of the channel count conversion: the input frame's samples
\* first; a mono frame is repeated on the second channel, every further
\* channel is silent; an incomplete input frame ends the output.
ConvertFrame(frame, from, to) ==
  LET n == IF Len(frame) = from THEN to
           ELSE IF Len(frame) < to THEN Len(frame) ELSE to
  IN  [i \in 1..n |-> IF i <= Len(frame) THEN frame[i]
                      ELSE IF i = 2 /\ from = 1 THEN frame[1]
                      ELSE zero_value]

RECURSIVE ConvertChannels(_, _, _)
ConvertChannels(data, from, to) ==
  IF data = <<>> THEN <<>>
  ELSE IF Len(data) <= from THEN ConvertFrame(data, from, to)
  ELSE ConvertFrame(SubSeq(data, 1, from), from, to)
       \o ConvertChannels(SubSeq(data, from + 1, Len(data)), from, to)

\* UniformSourceIterator::new(source, channels, sample_rate): the adapted
\* source reports the target channel count and yields the converted samples.
\* `native` keeps the channel count of the source handed to add().
UniformSourceIterator(id, native, data, target_channels) ==
  [id       |-> id,
   native   |-> native,
   channels |-> target_channels,
   data     |-> ConvertChannels(data, native, target_channels)]

\* the samples of the sources handed to add(): loud enough for two of them to
\* leave the range of i16; sources of an odd channel count hold positive
\* samples (20001, 20002, ...), the others negative ones (-20001, -20002, ...)
SourceData(native, len) ==
  [i \in 1..len |-> IF native % 2 = 1 THEN 20000 + i ELSE 0 - 20000 - i]

SampleRates == {48000}

\* --------------------------------------------------------- history records
NoTrack == [native |-> 0, done |-> FALSE, seen_at |-> -1, waited |-> 0, promoted_at |-> -1,
            promotions |-> 0, first_at |-> -1, first_pull |-> -1, drops |-> 0]

SeqIds(srcs) == {srcs[i].id : i \in 1..Len(srcs)}
Occurrences(srcs, id) == Cardinality({i \in 1..Len(srcs) : srcs[i].id = id})

\* Result<(), SeekError> of try_seek, and NotCalled where it was not called
NotCalled    == "NotCalled"
Ok           == "Ok"
NotSupported == "NotSupported"
\* the Duration try_seek is given
Positions    == {0, 1}

\* ------------------------------------------------------------ mixer()
MixerInit ==
  /\ channels \in 1..MaxChannels
  /\ sample_rate \in SampleRates
  /\ has_pending = FALSE
  /\ pending_sources = <<>>
  /\ pending_lock = "free"
  /\ current_sources = <<>>
  /\ sample_count = 0
  /\ next_pc = "ready"
  /\ next_ret = None
  /\ add_pc = [p \in Producers |-> "idle"]
  /\ add_src = [p \in Producers |-> UniformSourceIterator(0, 1, <<>>, 1)]
  /\ n_added = 0
  /\ track = [id \in Ids |-> NoTrack]
  /\ produced = 0
  /\ mixer_args = [channels |-> channels, sample_rate |-> sample_rate]
  /\ seek_ret = NotCalled

\* ------------------------------------------------------------ Mixer::add
\* line 56 and the lock() of line 58
AddLock(p) ==
  /\ add_pc[p] = "idle"
  /\ n_added < MaxSources
  /\ pending_lock = "free"
  /\ \E native \in 1..MaxChannels, len \in 1..MaxLen :
       /\ add_src' = [add_src EXCEPT ![p] =
            UniformSourceIterator(n_added + 1, native, SourceData(native, len), channels)]
       /\ track' = [track EXCEPT ![n_added + 1].native = native]
  /\ n_added' = n_added + 1
  /\ pending_lock' = p
  /\ add_pc' = [add_pc EXCEPT ![p] = "push"]
  /\ UNCHANGED <<engine_vars, mixer_args, seek_ret, channels, sample_rate, has_pending, pending_sources, current_sources,
                 sample_count, next_pc, next_ret, produced>>

\* the push of line 60
AddPush(p) ==
  /\ add_pc[p] = "push"
  /\ pending_sources' = Append(pending_sources, add_src[p])
  /\ add_pc' = [add_pc EXCEPT ![p] = "unlock"]
  /\ UNCHANGED <<engine_vars, mixer_args, seek_ret, channels, sample_rate, has_pending, pending_lock, current_sources,
                 sample_count, next_pc, next_ret, add_src, n_added, track, produced>>

\* the guard of line 58 is dropped at the end of the statement
AddUnlock(p) ==
  /\ add_pc[p] = "unlock"
  /\ pending_lock' = "free"
  /\ add_pc' = [add_pc EXCEPT ![p] = "store"]
  /\ UNCHANGED <<engine_vars, mixer_args, seek_ret, channels, sample_rate, has_pending, pending_sources, current_sources,
                 sample_count, next_pc, next_ret, add_src, n_added, track, produced>>

\* the store left out: the flag keeps its value
flag_kept(flag) == flag

\* line 61: has_pending.store(true)
flag_after_push(flag) == TRUE

\* the flag store of line 61; add() returns
AddStore(p) ==
  /\ add_pc[p] = "store"
  /\ has_pending' = flag_after_push(has_pending)
  /\ add_pc' = [add_pc EXCEPT ![p] = "idle"]
  /\ track' = [track EXCEPT ![add_src[p].id].done = TRUE]
  /\ UNCHANGED <<engine_vars, mixer_args, seek_ret, channels, sample_rate, pending_sources, pending_lock, current_sources,
                 sample_count, next_pc, next_ret, add_src, n_added, produced>>

\* --------------------------------------- MixerSource::start_pending_sources
\* the alignment test taken on the channel count of the source handed to add()
in_step_native(count, source) == count % source.native = 0

\* the alignment test taken on the counter after its increment
in_step_late(count, source) == (count + 1) % source.channels = 0

\* line 185
in_step(count, source) == count % source.channels = 0

\* lines 184-192: what the drain loop pushes onto current_sources
newly_current(count, pending) ==
  SelectSeq(pending, LAMBDA source : in_step(count, source))

\* the drain loop without the swap of line 193: the waiting sources are lost
still_pending_lost(count, pending) == <<>>

\* lines 184-193: what the drain loop pushes onto still_pending, which the
\* swap of line 193 makes the new pending queue
still_pending(count, pending) ==
  SelectSeq(pending, LAMBDA source : ~in_step(count, source))

\* the flag cleared whatever is left in the queue
flag_cleared(pending) == FALSE

\* line 195
flag_after_drain(pending) == pending # <<>>

\* ----------------------------------------- MixerSource::sum_current_sources
\* the running sum with + on i16 (wrapping) in place of saturating_add
WrappingAdd(a, b) ==
  LET width == SampleMax - SampleMin + 1
  IN  ((a + b - SampleMin) % width) + SampleMin

RECURSIVE sum_loop_wrapping(_, _)
sum_loop_wrapping(srcs, sum) ==
  IF srcs = <<>> THEN sum
  ELSE LET source == Head(srcs)
       IN  IF source.data # <<>>
           THEN sum_loop_wrapping(Tail(srcs), WrappingAdd(sum, Head(source.data)))
           ELSE sum_loop_wrapping(Tail(srcs), sum)

\* lines 200-207: the running sum over the drained sources
RECURSIVE sum_loop(_, _)
sum_loop(srcs, sum) ==
  IF srcs = <<>> THEN sum
  ELSE LET source == Head(srcs)
       IN  IF source.data # <<>>
           THEN sum_loop(Tail(srcs), saturating_add(sum, Head(source.data)))
           ELSE sum_loop(Tail(srcs), sum)

sum_current_sources(srcs) == sum_loop(srcs, zero_value)

\* lines 202-208: the sources that produced a value, each advanced by one
\* sample; the swap of line 208 makes them the new current_sources
RECURSIVE still_current(_)
still_current(srcs) ==
  IF srcs = <<>> THEN <<>>
  ELSE LET source == Head(srcs)
       IN  IF source.data # <<>>
           THEN <<[source EXCEPT !.data = Tail(source.data)]>> \o still_current(Tail(srcs))
           ELSE still_current(Tail(srcs))

\* end of sequence only once the pending queue is empty too
next_result_waits(current, sum) ==
  IF current = <<>> /\ pending_sources = <<>> THEN None ELSE Some(sum)

\* lines 160-164
next_result(current, sum) == IF current = <<>> THEN None ELSE Some(sum)

\* ------------------------------------- MixerSource::channels, sample_rate
\* the channel count of the first active source, the mixer's without one
channels_of_first(input_channels, srcs) ==
  IF srcs = <<>> THEN input_channels ELSE srcs[1].native

\* lines 93-95: self.input.channels
output_channels(input_channels, srcs) == input_channels

\* lines 98-100: self.input.sample_rate
output_sample_rate(input_sample_rate, srcs) == input_sample_rate

\* ----------------------------------------------- MixerSource::try_seek
\* lines 114-139, commented out in the source: every active source is sought
\* to its own position, which succeeds
try_seek_sources(srcs, pos) == Ok

\* lines 109-111
try_seek(srcs, pos) == NotSupported

\* try_seek takes &mut self: it runs between two calls of next()
TrySeek ==
  /\ next_pc = "ready"
  /\ \E pos \in Positions : seek_ret' = try_seek(current_sources, pos)
  /\ UNCHANGED <<engine_vars, mixer_args, channels, sample_rate, has_pending, pending_sources,
                 pending_lock, current_sources, sample_count, next_pc, next_ret, add_pc,
                 add_src, n_added, track, produced>>

\* --------------------------------------------------- MixerSource::next
\* line 152: the load of has_pending
NextLoad ==
  /\ next_pc = "ready"
  /\ sample_count < MaxPulls
  /\ next_pc' = IF has_pending THEN "lock" ELSE "sum"
  /\ seek_ret' = NotCalled
  /\ track' = [id \in Ids |->
       IF track[id].done /\ id \in SeqIds(pending_sources)
       THEN [track[id] EXCEPT !.waited = @ + 1,
                              !.seen_at = IF @ = -1 THEN sample_count ELSE @]
       ELSE track[id]]
  /\ UNCHANGED <<engine_vars, mixer_args, channels, sample_rate, has_pending, pending_sources, pending_lock,
                 current_sources, sample_count, next_ret, add_pc, add_src, n_added,
                 produced>>

\* line 182: lock() blocks until the mutex is free
NextLock ==
  /\ next_pc = "lock"
  /\ pending_lock = "free"
  /\ pending_lock' = "consumer"
  /\ next_pc' = "promote"
  /\ UNCHANGED <<engine_vars, mixer_args, seek_ret, channels, sample_rate, has_pending, pending_sources, current_sources,
                 sample_count, next_ret, add_pc, add_src, n_added, track, produced>>

\* lines 184-193: the drain loop and the swap
NextPromote ==
  /\ next_pc = "promote"
  /\ current_sources' = current_sources \o newly_current(sample_count, pending_sources)
  /\ pending_sources' = still_pending(sample_count, pending_sources)
  /\ next_pc' = "store"
  /\ track' = [id \in Ids |->
       IF id \in SeqIds(current_sources') \ SeqIds(current_sources)
       THEN [track[id] EXCEPT !.promoted_at = sample_count, !.promotions = @ + 1]
       ELSE track[id]]
  /\ UNCHANGED <<engine_vars, mixer_args, seek_ret, channels, sample_rate, has_pending, pending_lock, sample_count,
                 next_ret, add_pc, add_src, n_added, produced>>

\* lines 195-197: the flag store, then the guard is dropped
NextStore ==
  /\ next_pc = "store"
  /\ has_pending' = flag_after_drain(pending_sources)
  /\ pending_lock' = "free"
  /\ next_pc' = "sum"
  /\ UNCHANGED <<engine_vars, mixer_args, seek_ret, channels, sample_rate, pending_sources, current_sources, sample_count,
                 next_ret, add_pc, add_src, n_added, track, produced>>

\* the counter advanced only by a pull that has a source to sum
counted_samples(count, srcs) == IF srcs = <<>> THEN count ELSE count + 1

\* line 156: self.sample_count += 1
counted(count, srcs) == count + 1

\* lines 156-164: the counter, the summation pass and the result
NextSum ==
  /\ next_pc = "sum"
  /\ sample_count' = counted(sample_count, current_sources)
  /\ current_sources' = still_current(current_sources)
  /\ next_ret' = next_result(current_sources', sum_current_sources(current_sources))
  /\ next_pc' = "ready"
  /\ produced' = IF next_ret'.some THEN produced + 1 ELSE produced
  /\ track' = [id \in Ids |->
       IF id \in SeqIds(current_sources') /\ track[id].first_at = -1
       THEN [track[id] EXCEPT !.first_at = produced, !.first_pull = sample_count]
       ELSE IF id \in SeqIds(current_sources) \ SeqIds(current_sources')
       THEN [track[id] EXCEPT !.drops = @ + 1]
       ELSE track[id]]
  /\ UNCHANGED <<engine_vars, mixer_args, seek_ret, channels, sample_rate, has_pending, pending_sources, pending_lock,
                 add_pc, add_src, n_added>>

MixerNext ==
  \/ \E p \in Producers : AddLock(p)
  \/ \E p \in Producers : AddPush(p)
  \/ \E p \in Producers : AddUnlock(p)
  \/ \E p \in Producers : AddStore(p)
  \/ NextLoad
  \/ NextLock
  \/ NextPromote
  \/ NextStore
  \/ NextSum

\* =================================================================== engine
Callers == {"t1", "t2"}
SoundIds == 1..MaxSounds
Volumes == {50}

\* the three variants of Command; volume is read in SetVolume alone
Play(id)          == [kind |-> "Play", id |-> id, volume |-> 0]
Stop(id)          == [kind |-> "Stop", id |-> id, volume |-> 0]
SetVolume(id, v)  == [kind |-> "SetVolume", id |-> id, volume |-> v]

\* Err(TryRecvError::Empty), and the value of `polled` before the first poll
NoCommand         == [kind |-> "None", id |-> 0, volume |-> 0]

NoWatch == [stop_sent |-> FALSE, ahead |-> 0, polls |-> 0, applied |-> FALSE,
            played |-> FALSE, early |-> FALSE]

RegIds(reg) == {reg[i].id : i \in 1..Len(reg)}

\* ------------------------------------------------------------ Engine::new
\* lines 28-33.  When spawn fails the closure is dropped and rx with it.
EngineInit ==
  /\ spawned \in BOOLEAN
  /\ commands = <<>>
  /\ poisoned = FALSE
  /\ next_sound_id = 1
  /\ call_pc = [t \in Callers |-> "idle"]
  /\ call_id = [t \in Callers |-> 0]
  /\ handles = {}
  /\ sounds = <<>>
  /\ bg_pc = "poll"
  /\ stepped = <<>>
  /\ polled = NoCommand
  /\ assigned = <<>>
  /\ sent = [commands |-> 0, volumes |-> 0]
  /\ watch = [id \in SoundIds |-> NoWatch]

\* ----------------------------------------------------------- Engine::play
\* a load and a store of the old value in place of the atomic fetch_add
fetch_add_lost(counter) == counter

\* the counter after the fetch_add of line 42
fetch_add(counter) == counter + 1

\* lines 40-42: the decoder is built and the id is taken
PlayFetch(t) ==
  /\ call_pc[t] = "idle"
  /\ next_sound_id <= MaxSounds
  /\ call_id' = [call_id EXCEPT ![t] = next_sound_id]
  /\ next_sound_id' = fetch_add(next_sound_id)
  /\ assigned' = Append(assigned, next_sound_id)
  /\ call_pc' = [call_pc EXCEPT ![t] = "send"]
  /\ UNCHANGED <<mixer_vars, spawned, commands, poisoned, handles, sounds, bg_pc,
                 stepped, polled, sent, watch>>

\* lines 43-49 when the lock is sound and rx exists: the send, the Handle
PlaySend(t) ==
  /\ call_pc[t] = "send"
  /\ spawned /\ ~poisoned
  /\ commands' = Append(commands, Play(call_id[t]))
  /\ sent' = [sent EXCEPT !.commands = @ + 1]
  /\ handles' = handles \cup {call_id[t]}
  /\ call_pc' = [call_pc EXCEPT ![t] = "idle"]
  /\ UNCHANGED <<mixer_vars, spawned, poisoned, next_sound_id, call_id, sounds, bg_pc,
                 stepped, polled, assigned, watch>>

\* lines 43-44 otherwise: lock().unwrap() panics on a poisoned mutex;
\* send() returns Err once rx is dropped, unwrap() panics with the guard held
\* and poisons the mutex.  Nothing is queued and no Handle is returned.
PlayPanic(t) ==
  /\ call_pc[t] = "send"
  /\ ~spawned \/ poisoned
  /\ poisoned' = TRUE
  /\ call_pc' = [call_pc EXCEPT ![t] = "panicked"]
  /\ UNCHANGED <<mixer_vars, spawned, commands, next_sound_id, call_id, handles, sounds,
                 bg_pc, stepped, polled, assigned, sent, watch>>

\* ------------------------------------------------------ Handle::set_volume
\* lines 63-66.  A Handle exists only after a send succeeded, so rx exists and
\* the mutex is sound here.
HandleSetVolume(t) ==
  /\ call_pc[t] = "idle"
  /\ sent.volumes < MaxVolumes
  /\ \E id \in handles, v \in Volumes :
       /\ commands' = Append(commands, SetVolume(id, v))
       /\ sent' = [sent EXCEPT !.commands = @ + 1, !.volumes = @ + 1]
  /\ UNCHANGED <<mixer_vars, spawned, poisoned, next_sound_id, call_pc, call_id, handles,
                 sounds, bg_pc, stepped, polled, assigned, watch>>

\* ------------------------------------------------------------ Handle::stop
\* lines 69-72: the Handle is consumed
HandleStop(t) ==
  /\ call_pc[t] = "idle"
  /\ \E id \in handles :
       /\ commands' = Append(commands, Stop(id))
       /\ handles' = handles \ {id}
       /\ watch' = [watch EXCEPT ![id] =
                      [watch[id] EXCEPT !.stop_sent = TRUE, !.ahead = Len(commands)]]
       /\ sent' = [sent EXCEPT !.commands = @ + 1]
  /\ UNCHANGED <<mixer_vars, spawned, poisoned, next_sound_id, call_pc, call_id, sounds,
                 bg_pc, stepped, polled, assigned>>

\* ------------------------------------------------------------ background
\* lines 88-90; a fresh decoder plays at full volume, 100
apply_play(reg, id) == Append(reg, [id |-> id, volume |-> 100])

\* retain() with the test the wrong way round
apply_stop_inverted(reg, id) == SelectSeq(reg, LAMBDA e : e.id = id)

\* clear() in place of retain()
apply_stop_clear(reg, id) == <<>>

\* lines 92-94
apply_stop(reg, id) == SelectSeq(reg, LAMBDA e : e.id # id)

\* the volume written to every entry, found or not
apply_set_volume_all(reg, id, volume) ==
  [i \in 1..Len(reg) |-> [reg[i] EXCEPT !.volume = volume]]

\* lines 96-102: the first entry with the id, if any
apply_set_volume(reg, id, volume) ==
  LET hits == {i \in 1..Len(reg) : reg[i].id = id}
  IN  IF hits = {} THEN reg
      ELSE LET first == CHOOSE i \in hits : \A j \in hits : i <= j
           IN  [reg EXCEPT ![first].volume = volume]

\* lines 87-103
apply(reg, command) ==
  IF command.kind = "Play" THEN apply_play(reg, command.id)
  ELSE IF command.kind = "Stop" THEN apply_stop(reg, command.id)
  ELSE apply_set_volume(reg, command.id, command.volume)

\* recv() in place of try_recv(): returns only when a message is there
recv_blocks(chan) == chan # <<>>

\* line 86: rx.try_recv() returns at once, whatever the channel holds
try_recv_returns(chan) == TRUE

\* the newest message taken in place of the oldest
received_newest(chan) == chan[Len(chan)]

\* line 86: the message try_recv() takes from a channel that holds one
received(chan) == Head(chan)

\* lines 86-104: one try_recv; a command, if there is one, is applied
BgPoll ==
  /\ spawned
  /\ bg_pc = "poll"
  /\ try_recv_returns(commands)
  /\ IF commands # <<>>
     THEN /\ sounds' = apply(sounds, received(commands))
          /\ commands' = Tail(commands)
          /\ polled' = received(commands)
     ELSE /\ UNCHANGED <<sounds, commands>>
          /\ polled' = NoCommand
  /\ watch' = [id \in SoundIds |->
       LET got == IF commands # <<>> THEN received(commands) ELSE NoCommand
           w   == watch[id]
           w1  == IF w.stop_sent /\ ~w.applied
                  THEN [w EXCEPT !.polls = @ + 1, !.applied = (got = Stop(id))]
                  ELSE w
       IN  IF got.id # id THEN w1
           ELSE IF got.kind = "Play" THEN [w1 EXCEPT !.played = TRUE]
           ELSE [w1 EXCEPT !.early = @ \/ ~w.played]]
  /\ bg_pc' = "step"
  /\ UNCHANGED <<mixer_vars, spawned, poisoned, next_sound_id, call_pc, call_id, handles,
                 stepped, assigned, sent>>

\* the step pass stops one entry short
step_pass_short(reg) == [i \in 1..(Len(reg) - 1) |-> reg[i].id]

\* lines 110-114: the decoders the step pass writes, in order
step_pass(reg) == [i \in 1..Len(reg) |-> reg[i].id]

\* lines 107-121: every decoder in the registry is written once, in order;
\* then the sleep, if any, and the loop starts over
BgStep ==
  /\ bg_pc = "step"
  /\ stepped' = step_pass(sounds)
  /\ bg_pc' = "poll"
  /\ UNCHANGED <<mixer_vars, spawned, commands, poisoned, next_sound_id, call_pc, call_id,
                 handles, sounds, polled, assigned, sent, watch>>

EngineNext ==
  \/ \E t \in Callers : PlayFetch(t)
  \/ \E t \in Callers : PlaySend(t)
  \/ \E t \in Callers : PlayPanic(t)
  \/ \E t \in Callers : HandleSetVolume(t)
  \/ \E t \in Callers : HandleStop(t)
  \/ BgPoll
  \/ BgStep

\* ============================================================ specifications
vars == <<mixer_vars, engine_vars>>

\* an engine that nobody has used yet
EngineIdle ==
  /\ spawned = TRUE
  /\ commands = <<>>
  /\ poisoned = FALSE
  /\ next_sound_id = 1
  /\ call_pc = [t \in Callers |-> "idle"]
  /\ call_id = [t \in Callers |-> 0]
  /\ handles = {}
  /\ sounds = <<>>
  /\ bg_pc = "poll"
  /\ stepped = <<>>
  /\ polled = NoCommand
  /\ assigned = <<>>
  /\ sent = [commands |-> 0, volumes |-> 0]
  /\ watch = [id \in SoundIds |-> NoWatch]

\* a mixer that nobody has used yet
MixerIdle ==
  /\ MixerInit
  /\ channels = 1

\* the mixer
Init == MixerInit /\ EngineIdle
Next == MixerNext
Spec == Init /\ [][Next]_vars

\* the mixer, with a consumer that also seeks between its pulls
NextSeek == MixerNext \/ TrySeek
SpecSeek == Init /\ [][NextSeek]_vars

\* the engine
InitEngine == MixerIdle /\ EngineInit
NextEngine == EngineNext
SpecEngine == InitEngine /\ [][NextEngine]_vars

\* the loop alone, in front of one command, with any registry it can hold
ApplyIds == 1..(MaxSounds + 1)
Registries ==
  {reg \in UNION {[1..n -> [id : ApplyIds, volume : Volumes \cup {100}]] : n \in 0..(MaxSounds + 1)} :
     \A i, j \in 1..Len(reg) : reg[i].id = reg[j].id => i = j}
ApplyCommands(reg) ==
  {Play(id) : id \in ApplyIds \ RegIds(reg)}
    \cup {Stop(id) : id \in ApplyIds}
    \cup {SetVolume(id, v) : id \in ApplyIds, v \in Volumes}

InitApply ==
  /\ MixerIdle
  /\ spawned = TRUE
  /\ sounds \in Registries
  /\ \E c \in ApplyCommands(sounds) : commands = <<c>>
  /\ poisoned = FALSE
  /\ next_sound_id = MaxSounds + 2
  /\ call_pc = [t \in Callers |-> "idle"]
  /\ call_id = [t \in Callers |-> 0]
  /\ handles = {}
  /\ bg_pc = "poll"
  /\ stepped = step_pass(sounds)
  /\ polled = NoCommand
  /\ assigned = <<>>
  /\ sent = [commands |-> 0, volumes |-> 0]
  /\ watch = [id \in SoundIds |-> [NoWatch EXCEPT !.played = id \in RegIds(sounds)]]
NextApply == BgPoll \/ BgStep
SpecApply == InitApply /\ [][NextApply]_vars

\* ===================================================================== claims
Pending(id) == id \in SeqIds(pending_sources)
Current(id) == id \in SeqIds(current_sources)
Dropped(id) == track[id].drops > 0
\* the source of id has been pushed onto the pending queue by its add()
Pushed(id)  == /\ id <= n_added
               /\ \A p \in Producers : add_src[p].id = id => add_pc[p] \notin {"push"}
\* the smallest multiple of n that is >= k
NextMultiple(k, n) == k + ((n - (k % n)) % n)

\* C1, as amended: a source moves from the pending queue to the active set only
\* in the promotion pass of a pull, and only when that pass finds the counter
\* to be a multiple of the channel count the queued (adapted) source reports,
\* which is the mixer's; a queued source that fails the test stays queued.
C1_PromotionOnlyWhenAligned ==
  [][\A id \in Ids :
       /\ (Pending(id) /\ Current(id)')
            => (next_pc = "promote" /\ sample_count % channels = 0)
       /\ (Pending(id) /\ next_pc = "promote" /\ sample_count % channels # 0)
            => Pending(id)']_vars

\* C1, as stated: the test is on the source's own channel count before adaptation.
C1_PromotionOnNativeChannels ==
  [][\A id \in Ids :
       /\ (Pending(id) /\ Current(id)')
            => (next_pc = "promote" /\ sample_count % track[id].native = 0)
       /\ (Pending(id) /\ next_pc = "promote" /\ sample_count % track[id].native # 0)
            => Pending(id)']_vars

\* a source of another channel count than the mixer's was deferred, then promoted
C1_Witness ==
  \E id \in Ids : /\ track[id].promoted_at > 0
                  /\ track[id].native # channels
                  /\ track[id].waited >= 2

\* C2: the first sample a source contributes to is a channel-0 sample: the
\* number of samples next() has returned before it is a multiple of the
\* mixer's channel count.
C2_FirstSampleOnChannelZero ==
  \A id \in Ids : track[id].first_at # -1 => track[id].first_at % channels = 0

\* C3: a pull that returns a sample returns the saturating fold, from zero and
\* in active-set order, of the next value of every active source that has one;
\* the result lies in the range of the sample type.
Clamp(x) == IF x > SampleMax THEN SampleMax ELSE IF x < SampleMin THEN SampleMin ELSE x

RECURSIVE FoldSaturating(_)
FoldSaturating(vals) ==
  IF vals = <<>> THEN 0
  ELSE Clamp(FoldSaturating(SubSeq(vals, 1, Len(vals) - 1)) + vals[Len(vals)])

ValuesDue(srcs) ==
  LET live == SelectSeq(srcs, LAMBDA source : Len(source.data) > 0)
  IN  [i \in 1..Len(live) |-> live[i].data[1]]

C4_EndIffActiveEmpty ==
  (next_pc = "ready" /\ sample_count > 0)
    => ((next_ret = None) <=> (current_sources = <<>>))

\* a pull returned end-of-sequence while a source whose add() had returned waited
C4_Witness ==
  /\ next_pc = "ready"
  /\ sample_count > 0
  /\ next_ret = None
  /\ \E id \in Ids : Pending(id) /\ track[id].done

\* C5, as amended: with N the mixer's channel count, a source whose add() has
\* returned before a pull begins is promoted in the first such pull whose
\* counter is a multiple of N, neither earlier nor later (in that very pull
\* when the counter is one already), and it contributes to no sample before.
C5_DeferredToNextMultiple ==
  \A id \in Ids :
    /\ (track[id].seen_at # -1 /\ track[id].promoted_at # -1)
         => track[id].promoted_at = NextMultiple(track[id].seen_at, channels)
    /\ (track[id].seen_at # -1 /\ Pending(id) /\ next_pc = "ready")
         => sample_count <= NextMultiple(track[id].seen_at, channels)
    /\ track[id].first_pull # -1
         => (track[id].promotions = 1 /\ track[id].first_pull = track[id].promoted_at)

\* C5, as stated: N is the channel count of the source that was added.
C5_DeferredOnNativeChannels ==
  \A id \in Ids :
    /\ (track[id].seen_at # -1 /\ track[id].promoted_at # -1)
         => track[id].promoted_at = NextMultiple(track[id].seen_at, track[id].native)
    /\ (track[id].seen_at # -1 /\ Pending(id) /\ next_pc = "ready")
         => sample_count <= NextMultiple(track[id].seen_at, track[id].native)
    /\ track[id].first_pull # -1
         => (track[id].promotions = 1 /\ track[id].first_pull = track[id].promoted_at)

\* a source added while the counter was off the frame boundary has been promoted
\* and has contributed
C5_Witness ==
  \E id \in Ids : /\ track[id].seen_at # -1
                  /\ track[id].seen_at % channels # 0
                  /\ track[id].first_pull # -1

\* C6: every pushed source is in exactly one of pending queue, active set and
\* dropped; it leaves pending only by promotion, at most once; it leaves the
\* active set only in the summation pass in which it has no value left; a
\* dropped source never comes back.
C6_ExactlyOnePlace ==
  /\ [](\A id \in Ids :
          /\ Pushed(id) => Occurrences(pending_sources, id)
                           + Occurrences(current_sources, id) + track[id].drops = 1
          /\ ~Pushed(id) => (~Pending(id) /\ ~Current(id) /\ ~Dropped(id))
          /\ track[id].promotions <= 1)
  /\ [][\A id \in Ids :
          /\ (Pending(id) /\ ~Pending(id)') => (Current(id)' /\ next_pc = "promote")
          /\ (Current(id) /\ ~Current(id)')
               => /\ next_pc = "sum"
                  /\ \E i \in 1..Len(current_sources) :
                       current_sources[i].id = id /\ current_sources[i].data = <<>>
          /\ (Current(id) /\ Current(id)') => ~Pending(id)'
          /\ Dropped(id) => (~Pending(id)' /\ ~Current(id)')]_vars

\* one source has been promoted and dropped while another one waits
C6_Witness ==
  \E a \in Ids, b \in Ids :
    /\ track[a].promotions = 1 /\ Dropped(a)
    /\ Pending(b)

\* C7: in every interleaving of the producers' steps with the consumer's, a
\* source whose add() has returned is in exactly one place, has been promoted
\* at most once, and waits in the queue for at most as many pulls as the mixer
\* has channels: it is promoted by the end of the last of them.
C7_EveryAddedSourcePromoted ==
  \A id \in Ids :
    track[id].done =>
      /\ Occurrences(pending_sources, id) + Occurrences(current_sources, id)
           + track[id].drops = 1
      /\ track[id].promotions = (IF Pending(id) THEN 0 ELSE 1)
      /\ track[id].waited <= channels
      /\ (Pending(id) /\ next_pc = "ready") => track[id].waited < channels

\* two adds overlapped and the source of one of them has been promoted
C7_Witness ==
  \E id \in Ids, p \in Producers :
    /\ track[id].done /\ track[id].promotions = 1 /\ track[id].waited >= 1
    /\ add_pc[p] \in {"unlock", "store"}

\* C8, as amended: the loop applies one command per iteration, so Stop(K) is
\* applied, and K's decoder removed, by the poll that receives it, which is
\* poll number n + 1 after the send when n commands were queued ahead of it
\* (one tick only when the channel was empty); from then on K is never in the
\* registry.
C8_StopAppliedByItsPoll ==
  \A id \in SoundIds :
    watch[id].stop_sent =>
      /\ watch[id].polls <= watch[id].ahead + 1
      /\ watch[id].applied <=> (watch[id].polls = watch[id].ahead + 1)
      /\ watch[id].applied => id \notin RegIds(sounds)

\* C8, as stated: after the first poll that follows the send of Stop(K), K is
\* not in the registry.
C8_RemovedWithinOneTick ==
  \A id \in SoundIds :
    (watch[id].stop_sent /\ watch[id].polls >= 1) => id \notin RegIds(sounds)

\* Stop(K) waited behind other commands and has been applied
C8_Witness ==
  \E id \in SoundIds :
    /\ watch[id].applied
    /\ watch[id].ahead >= 1
    /\ watch[id].polls = watch[id].ahead + 1

\* C9: when the background thread was not spawned, no call panics and every
\* command of a call that got as far as its send is in the channel.
C9_SendsSucceedWithoutThread ==
  ~spawned =>
    /\ \A t \in Callers : call_pc[t] # "panicked"
    /\ Len(commands) = Len(assigned) - Cardinality({t \in Callers : call_pc[t] = "send"})

\* C10: the ids play() takes strictly increase in the order they are taken, no
\* two calls in flight hold the same id, and no id is twice in the registry,
\* twice in the channel as a Play, or in both.
C10_SoundIdsUnique ==
  /\ \A i \in 1..Len(assigned), j \in 1..Len(assigned) :
       i < j => assigned[i] < assigned[j]
  /\ \A t \in Callers, u \in Callers :
       (t # u /\ call_pc[t] = "send" /\ call_pc[u] = "send") => call_id[t] # call_id[u]
  /\ \A id \in SoundIds :
       Cardinality({i \in 1..Len(sounds) : sounds[i].id = id})
         + Cardinality({i \in 1..Len(commands) : commands[i] = Play(id)}) <= 1

\* two plays took their ids before either had sent, and both sounds are registered
C10_Witness ==
  /\ Len(sounds) = 2
  /\ sounds[1].id > sounds[2].id

\* C11: the channel hands the commands to the loop in the order of their
\* sends: a send appends, a poll takes the oldest and leaves the rest in
\* order.  So Play(K) is applied before any SetVolume(K) or Stop(K), an entry
\* with id K is in the registry only after Play(K) was applied, and never
\* once Stop(K) has been applied.
C11_AppliedInSendOrder ==
  /\ [](\A id \in SoundIds :
          /\ ~watch[id].early
          /\ id \in RegIds(sounds) => watch[id].played
          /\ watch[id].applied => (watch[id].played /\ id \notin RegIds(sounds)))
  /\ [][/\ (bg_pc = "poll" /\ bg_pc' = "step" /\ commands # <<>>)
             => /\ polled' = commands[1]
                /\ Len(commands') = Len(commands) - 1
                /\ \A i \in 1..Len(commands') : commands'[i] = commands[i + 1]
        /\ Len(commands') > Len(commands)
             => /\ Len(commands') = Len(commands) + 1
                /\ \A i \in 1..Len(commands) : commands'[i] = commands[i]]_vars

\* Stop(K) was sent behind two queued commands and has been applied after Play(K)
C11_Witness ==
  \E id \in SoundIds :
    /\ watch[id].applied
    /\ watch[id].played
    /\ watch[id].ahead >= 2

\* the loop takes the command c from the channel in this step
Applies(c) ==
  /\ bg_pc = "poll"
  /\ commands # <<>>
  /\ commands[1] = c
  /\ commands' = Tail(commands)

\* C12: Stop(K) removes exactly the entries with id K; the other entries
\* keep their values and their relative order.  With no entry of id K the
\* registry is unchanged, and the loop goes on to its step pass.
C12_StopRemovesExactlyK ==
  [][\A K \in ApplyIds :
       Applies(Stop(K)) =>
         LET keep == {i \in 1..Len(sounds) : sounds[i].id # K}
         IN  /\ Len(sounds') = Cardinality(keep)
             /\ \A i \in keep : sounds'[Cardinality({j \in keep : j <= i})] = sounds[i]
             /\ K \notin RegIds(sounds) => sounds' = sounds
             /\ bg_pc' = "step"]_vars

\* Stop(K) has taken one entry out of a registry of three
C12_Witness ==
  /\ bg_pc = "step"
  /\ polled.kind = "Stop"
  /\ Len(stepped) = 3
  /\ \E i \in 1..Len(stepped) : stepped[i] = polled.id
  /\ Len(sounds) = 2

\* C13: SetVolume(K, v) sets the volume of the entry with id K and changes
\* nothing else: the other entries, the length and the order stay.  With no
\* entry of id K the registry is unchanged, and the loop goes on to its step
\* pass.
C13_SetVolumeOnlyK ==
  [][\A K \in ApplyIds : \A v \in Volumes :
       Applies(SetVolume(K, v)) =>
         /\ Len(sounds') = Len(sounds)
         /\ \A i \in 1..Len(sounds) :
              /\ sounds'[i].id = sounds[i].id
              /\ sounds'[i].volume = IF sounds[i].id = K THEN v ELSE sounds[i].volume
         /\ K \notin RegIds(sounds) => sounds' = sounds
         /\ bg_pc' = "step"]_vars

\* SetVolume(K, v) has been applied to a registry of three: the entry K plays
\* at v, the other two at full volume
C13_Witness ==
  /\ bg_pc = "step"
  /\ polled.kind = "SetVolume"
  /\ Len(sounds) = 3
  /\ \A i \in 1..Len(sounds) :
       sounds[i].volume = IF sounds[i].id = polled.id THEN polled.volume ELSE 100
  /\ polled.id \in RegIds(sounds)

\* C14: an iteration of the loop takes at most one command from the channel
\* and never waits for one: the poll can always be taken, with an empty
\* channel it changes nothing in the registry, and the step pass over every
\* registered decoder follows it in either case.
C14_PollNeverBlocks ==
  /\ []((spawned /\ bg_pc = "poll") => ENABLED BgPoll)
  /\ [](bg_pc = "step" => ENABLED BgStep)
  /\ [][(bg_pc = "poll" /\ bg_pc' = "step")
          => /\ Len(commands') >= Len(commands) - 1
             /\ commands = <<>> => (sounds' = sounds /\ polled' = NoCommand)]_vars
  /\ [][(bg_pc = "step" /\ bg_pc' = "poll")
          => /\ commands' = commands
             /\ Len(stepped') = Len(sounds)]_vars

\* an iteration that found the channel empty has stepped two decoders
C14_Witness ==
  /\ bg_pc = "poll"
  /\ polled = NoCommand
  /\ commands = <<>>
  /\ Len(stepped) = 2
  /\ Len(sounds) = 2

\* C17: the step pass of an iteration writes each decoder that is in the
\* registry after the iteration's command was applied, once each and in
\* registry order.  A decoder pushed by Play in the iteration is written in
\* it, one removed by Stop in the iteration is not.
C17_StepsRegistryOnce ==
  /\ [][(bg_pc = "step" /\ bg_pc' = "poll")
          => /\ Len(stepped') = Len(sounds)
             /\ \A i \in 1..Len(sounds) : stepped'[i] = sounds[i].id
             /\ \A i, j \in 1..Len(stepped') : stepped'[i] = stepped'[j] => i = j
             /\ sounds' = sounds]_vars
  /\ []((bg_pc = "poll" /\ polled.kind = "Play")
          => \E i \in 1..Len(stepped) : stepped[i] = polled.id)
  /\ []((bg_pc = "poll" /\ polled.kind = "Stop")
          => \A i \in 1..Len(stepped) : stepped[i] # polled.id)

\* the iteration that applied a Play has stepped the new decoder behind an
\* older one
C17_Witness ==
  /\ bg_pc = "poll"
  /\ polled.kind = "Play"
  /\ Len(stepped) = 2
  /\ stepped[2] = polled.id

\* C15: try_seek returns the not-supported error, for every position and in
\* every state it can be called in, and leaves the active set, the pending
\* queue and the sample counter as they were.
C15_SeekNotSupported ==
  /\ [](seek_ret # Ok)
  /\ [][(seek_ret' # seek_ret /\ seek_ret' # NotCalled)
          => /\ seek_ret' = NotSupported
             /\ current_sources' = current_sources
             /\ pending_sources' = pending_sources
             /\ sample_count' = sample_count]_vars

\* a seek has failed on a mixer that has pulled samples, with one source
\* active and another pending
C15_Witness ==
  /\ seek_ret = NotSupported
  /\ current_sources # <<>>
  /\ pending_sources # <<>>
  /\ sample_count > 0

C18_CounterEqualsProduced ==
  sample_count = produced

\* C19: no wake-up is lost on has_pending.  Whenever the pending queue is
\* non-empty and no add() is between its push and its flag store, the flag is
\* true; the flag is true as long as the source of an add() that has returned
\* waits in the queue, so the pull that begins then takes the promotion pass.
\* A promotion pass that leaves the queue empty stores false.
C19_NoLostWakeup ==
  /\ []((/\ pending_sources # <<>>
         /\ \A p \in Producers : add_pc[p] \notin {"unlock", "store"})
          => has_pending)
  /\ []((\E id \in Ids : Pending(id) /\ track[id].done) => has_pending)
  /\ [][(next_pc = "ready" /\ next_pc' # "ready"
           /\ \E id \in Ids : Pending(id) /\ track[id].done)
          => next_pc' = "lock"]_vars
  /\ [][(next_pc = "store" /\ next_pc' = "sum" /\ pending_sources = <<>>)
          => ~has_pending']_vars

\* the flag is true over an empty queue with no add() in flight: the add()
\* stored it after the promotion pass that took its source had stored false
C19_Witness ==
  /\ has_pending
  /\ pending_sources = <<>>
  /\ \A p \in Producers : add_pc[p] = "idle"
  /\ next_pc = "ready"
  /\ sample_count > 0

====
